---- MODULE Spec2Model ----
(***************************************************************************)
(* Model of the ZooKeeper key-value adapter                                *)
(* (core/src/services/zookeeper/backend.rs): the lazily established,       *)
(* set-once connection handle (get_connection), the ancestor creation      *)
(* routine (create_nested_node) and the three adapter operations get, set  *)
(* and delete, run by asynchronous tasks that suspend at every remote      *)
(* round trip (connect, auth, create, get_data, set_data, delete).         *)
(*                                                                         *)
(* Strings are sequences of one-character strings; all characters are      *)
(* ASCII, so the byte indices of len/find/rfind and the character indices  *)
(* of Substring::substring coincide.  Indices are 0-based as in the code.  *)
(***************************************************************************)
EXTENDS Integers, Sequences, FiniteSets, TLC

(* ------------------------------ bounds --------------------------------- *)

\* deepest key of the chain a, a/b, a/b/c, ...
MaxDepth == 3

\* operations started in one behaviour
MaxOps == 2

\* segment names of the chain of keys
Segs == <<"a", "b", "c", "d", "e">>

\* byte payloads handed to set
Values == {"v1", "v2"}

\* byte payloads of the nodes the store holds before the adapter is built
OldValues == {"v0"}

\* tasks that may run adapter operations concurrently
Procs == {"t1", "t2"}

\* the only task of the sequential specification
SeqProc == "t1"

\* configured user names / passwords; "" is the unset Option
Creds == {"", "u"}

(* ------------------------- string primitives --------------------------- *)

Min(a, b) == IF a <= b THEN a ELSE b

\* Substring::substring(start, end): characters [start, end), clipped to the
\* string, and "" when end <= start
substring(s, start, end) ==
    IF end <= start THEN <<>>
    ELSE SubSeq(s, Min(start, Len(s)) + 1, Min(end, Len(s)))

\* str::find(c): index of the first c, -1 for None
find(s, c) ==
    IF \E i \in 1..Len(s) : s[i] = c
    THEN (CHOOSE i \in 1..Len(s) : s[i] = c /\ \A j \in 1..(i-1) : s[j] # c) - 1
    ELSE -1

\* str::rfind(c): index of the last c, -1 for None
rfind(s, c) ==
    IF \E i \in 1..Len(s) : s[i] = c
    THEN (CHOOSE i \in 1..Len(s) : s[i] = c /\ \A j \in (i+1)..Len(s) : s[j] # c) - 1
    ELSE -1

\* str::starts_with(c)
starts_with(s, c) == Len(s) > 0 /\ s[1] = c

\* path.strip_suffix('/').unwrap_or(path)
strip_suffix(s, c) ==
    IF Len(s) > 0 /\ s[Len(s)] = c THEN SubSeq(s, 1, Len(s) - 1) ELSE s

\* crate::raw::build_rooted_abs_path: the canonical absolute path of a
\* relative key under root
build_rooted_abs_path(root, path) ==
    IF path = <<"/">> THEN root ELSE root \o path

(* ------------------------------- inputs -------------------------------- *)

RECURSIVE Key(_)
Key(n) == IF n = 1 THEN <<Segs[1]>> ELSE Key(n - 1) \o <<"/", Segs[n]>>

\* a sibling of the chain, directly under the root
SideKey == <<"z">>

\* keys handed to get/set/delete: the chain, the same with a trailing
\* slash, and the sibling
Keys == {Key(n) : n \in 1..MaxDepth}
          \cup {Key(n) \o <<"/">> : n \in 1..MaxDepth}
          \cup {SideKey}

RootPath == <<"/">>

\* node paths of the remote namespace
NodePaths == {RootPath} \cup {build_rooted_abs_path(RootPath, strip_suffix(k, "/")) : k \in Keys}

(* --------------------------- the remote store -------------------------- *)

\* payload marker of a node that does not exist
Nil == "nil"

\* payload of the pre-existing root node
RootData == ""

Data(ns, p) == IF p \in DOMAIN ns THEN ns[p] ELSE Nil

\* the parent node of a path
ZkParent(p) ==
    LET i == rfind(p, "/") IN IF i <= 0 THEN RootPath ELSE SubSeq(p, 1, i)

HasChildren(ns, p) ==
    \E q \in DOMAIN ns : q # p /\ q # RootPath /\ ns[q] # Nil /\ ZkParent(q) = p

\* zk::Client::create: refused with NoNode when the parent is missing and
\* with NodeExists when the node is there
ZkCreate(ns, p, v) ==
    IF p \notin DOMAIN ns THEN [err |-> "BadArguments", ns |-> ns, data |-> Nil]
    ELSE IF p # RootPath /\ Data(ns, ZkParent(p)) = Nil
         THEN [err |-> "NoNode", ns |-> ns, data |-> Nil]
    ELSE IF ns[p] # Nil THEN [err |-> "NodeExists", ns |-> ns, data |-> Nil]
    ELSE [err |-> "Ok", ns |-> [ns EXCEPT ![p] = v], data |-> Nil]

\* zk::Client::set_data with no expected version
ZkSetData(ns, p, v) ==
    IF Data(ns, p) = Nil THEN [err |-> "NoNode", ns |-> ns, data |-> Nil]
    ELSE [err |-> "Ok", ns |-> [ns EXCEPT ![p] = v], data |-> Nil]

\* zk::Client::get_data
ZkGetData(ns, p) ==
    IF Data(ns, p) = Nil THEN [err |-> "NoNode", ns |-> ns, data |-> Nil]
    ELSE [err |-> "Ok", ns |-> ns, data |-> ns[p]]

\* zk::Client::delete with no expected version: a node with children is
\* refused with NotEmpty, the root cannot be deleted
ZkDelete(ns, p) ==
    IF Data(ns, p) = Nil THEN [err |-> "NoNode", ns |-> ns, data |-> Nil]
    ELSE IF p = RootPath THEN [err |-> "BadArguments", ns |-> ns, data |-> Nil]
    ELSE IF HasChildren(ns, p) THEN [err |-> "NotEmpty", ns |-> ns, data |-> Nil]
    ELSE [err |-> "Ok", ns |-> [ns EXCEPT ![p] = Nil], data |-> Nil]

\* the answer to a node request; a transport failure (fault) answers
\* ConnectionLoss and leaves the namespace alone
ZkAnswer(ns, kind, p, v, fault) ==
    IF fault THEN [err |-> "ConnectionLoss", ns |-> ns, data |-> Nil]
    ELSE IF kind = "create" THEN ZkCreate(ns, p, v)
    ELSE IF kind = "set_data" THEN ZkSetData(ns, p, v)
    ELSE IF kind = "get_data" THEN ZkGetData(ns, p)
    ELSE ZkDelete(ns, p)

\* namespaces the store can hold: the root exists and every node's parent
\* exists
Namespaces ==
    {ns \in [NodePaths -> OldValues \cup {Nil, RootData}] :
        /\ ns[RootPath] = RootData
        /\ \A p \in NodePaths \ {RootPath} :
              /\ ns[p] # RootData
              /\ ns[p] # Nil => ns[ZkParent(p)] # Nil}

(* ------------------------------- state --------------------------------- *)

VARIABLES
    nodes,      \* the remote namespace: node path -> payload, Nil when absent
    client,     \* ZkAdapter.client, the OnceCell: <<>> or <<session>>
    auth,       \* ZkAdapter.auth, the auth token, <<>> without credentials
    acl,        \* ZkAdapter.acl
    task,       \* per task: the operation it runs and where it is suspended
    opened,     \* sessions opened; a session is named by its connect request
    authed,     \* sessions whose auth request succeeded
    connects,   \* connect requests issued
    auths,      \* auth requests issued
    ops         \* operations started

vars == <<nodes, client, auth, acl, task, opened, authed, connects, auths, ops>>

\* ZookeeperBuilder::build: the (auth, acl) pair of the adapter
Build(username, password) ==
    IF username # "" /\ password # ""
    THEN [auth |-> <<username, ":", password>>, acl |-> "creator_all"]
    ELSE [auth |-> <<>>, acl |-> "anyone_all"]

NoResult == [kind |-> "none", cause |-> "", data |-> Nil]

OkResult == [kind |-> "ok", cause |-> "", data |-> Nil]

\* Ok(None) of get
Absent == [kind |-> "absent", cause |-> "", data |-> Nil]

\* Ok(Some(data)) of get
Found(d) == [kind |-> "value", cause |-> "", data |-> d]

\* Error::new(ErrorKind::Unexpected, ..).set_source(e)
Unexpected(e) == [kind |-> "Unexpected", cause |-> e, data |-> Nil]

\* Option::unwrap on None
Panicked == [kind |-> "panic", cause |-> "unwrap", data |-> Nil]

NoPrev ==
    [op |-> "none", path |-> <<>>, value |-> Nil, result |-> NoResult, resp |-> ""]

\* what a task remembers of the operation it ran before the current one;
\* resp is the answer to the last request of that operation
Summary(t) ==
    IF t.pc = "done"
    THEN [op |-> t.op, path |-> t.path, value |-> t.value, result |-> t.result,
          resp |-> t.log[Len(t.log)].resp]
    ELSE NoPrev

\* the paths of the nodes that exist
Existing(ns) == {q \in DOMAIN ns : ns[q] # Nil}

IdleTask(ns) ==
    [pc |-> "idle", op |-> "none", path |-> <<>>, value |-> Nil, rend |-> 0,
     next |-> "none", sess |-> 0, log |-> <<>>, result |-> NoResult,
     pre |-> Existing(ns), prev |-> NoPrev]

Init ==
    /\ nodes \in Namespaces
    /\ client = <<>>
    /\ \E username \in Creds, password \in Creds :
          /\ auth = Build(username, password).auth
          /\ acl = Build(username, password).acl
    /\ task = [p \in Procs |-> IdleTask(nodes)]
    /\ opened = {}
    /\ authed = {}
    /\ connects = 0
    /\ auths = 0
    /\ ops = 0

(* --------------------------- get_connection ---------------------------- *)

\* the kind of remote request behind a position of the code
RequestKind(next) == IF next \in {"create1", "create2"} THEN "create" ELSE next

\* the first argument of the create call of Phase 1: the prefix, "/" when
\* the prefix is empty
Subpath(path, rend) ==
    IF substring(path, 0, rend) = <<>> THEN RootPath ELSE substring(path, 0, rend)

\* mutant: the update of set names the parent of the target
RequestPathParent(t) ==
    IF t.next = "create1" THEN Subpath(t.path, t.rend)
    ELSE IF t.next = "create2" THEN substring(t.path, 0, t.rend)
    ELSE IF t.next = "set_data" THEN ZkParent(t.path)
    ELSE t.path

\* the path the task's next node request names
RequestPath(t) ==
    IF t.next = "create1" THEN Subpath(t.path, t.rend)
    ELSE IF t.next = "create2" THEN substring(t.path, 0, t.rend)
    ELSE t.path

\* mutant: every create request carries the permissive ACL
RequestAclAnyone(t) == IF RequestKind(t.next) = "create" THEN "anyone_all" ELSE ""

\* a create request carries the adapter's ACL in persistent mode
RequestAcl(t) == IF RequestKind(t.next) = "create" THEN acl ELSE ""

\* zk::CreateMode::Persistent of every create request
RequestMode(t) == IF RequestKind(t.next) = "create" THEN "Persistent" ELSE ""

\* mutant: nodes above the target are created with an empty payload
RequestEntryPlaceholder(t, s) ==
    [kind |-> RequestKind(t.next), path |-> RequestPath(t),
     value |-> IF t.next = "get_data" \/ t.next = "delete" THEN Nil
               ELSE IF RequestPath(t) # t.path THEN "" ELSE t.value,
     acl |-> RequestAcl(t), mode |-> RequestMode(t), sess |-> s,
     resp |-> "pending"]

RequestEntry(t, s) ==
    [kind |-> RequestKind(t.next), path |-> RequestPath(t),
     value |-> IF t.next = "get_data" \/ t.next = "delete" THEN Nil ELSE t.value,
     acl |-> RequestAcl(t), mode |-> RequestMode(t), sess |-> s,
     resp |-> "pending"]

SessionEntry(kind, s) ==
    [kind |-> kind, path |-> <<>>, value |-> Nil, acl |-> "", mode |-> "",
     sess |-> s, resp |-> "pending"]

\* the answer to the request the task is waiting for
Answered(log, resp) == [log EXCEPT ![Len(log)].resp = resp]

\* mutant: a task that opened a session of its own keeps sending over it
SendOwn(t, s) ==
    [t EXCEPT !.pc = "req", !.sess = IF t.sess # 0 THEN t.sess ELSE s,
              !.log = Append(@, RequestEntry(t, IF t.sess # 0 THEN t.sess ELSE s))]

\* the node request is sent over session s and the task waits for the answer
Send(t, s) ==
    [t EXCEPT !.pc = "req", !.sess = s, !.log = Append(@, RequestEntry(t, s))]

\* zk::Client::connect is issued and the task waits for the answer
Dial(t) ==
    [t EXCEPT !.pc = "connecting", !.sess = connects + 1,
              !.log = Append(@, SessionEntry("connect", connects + 1))]

\* mutant: the cell is never filled
OnceSetNever(cell, s) == cell

\* mutant: the cell takes every value offered
OnceSetReplace(cell, s) == <<s>>

\* OnceCell::set(..).ok(): the cell keeps a value it already holds
OnceSet(cell, s) == IF cell = <<>> THEN <<s>> ELSE cell

\* get_connection, up to its first await, followed by the node request of
\* the caller: a cached handle is used at once, otherwise connect is issued
GetConnection(p, t) ==
    IF client # <<>>
    THEN /\ task' = [task EXCEPT ![p] = Send(t, client[1])]
         /\ connects' = connects
    ELSE /\ task' = [task EXCEPT ![p] = Dial(t)]
         /\ connects' = connects + 1

Finish(t, res) == [t EXCEPT !.pc = "done", !.result = res]

\* the task goes on to its next node request
Want(t) == [t EXCEPT !.pc = "want"]

(* --------------------------- adapter operations ------------------------ *)

\* the node request an operation starts with
FirstRequest(o) ==
    IF o = "get" THEN "get_data" ELSE IF o = "set" THEN "set_data" ELSE "delete"

\* get, set, delete: the key is canonicalized
Canonical(k) == build_rooted_abs_path(RootPath, strip_suffix(k, "/"))

\* mutant: get without the NoNode arm
OnGetDataStrict(t, ans) ==
    IF ans.err = "Ok" THEN Finish(t, Found(ans.data))
    ELSE Finish(t, Unexpected(ans.err))

\* get: the answer to get_data
OnGetData(t, ans) ==
    IF ans.err = "Ok" THEN Finish(t, Found(ans.data))
    ELSE IF ans.err = "NoNode" THEN Finish(t, Absent)
    ELSE Finish(t, Unexpected(ans.err))

\* mutant: delete swallows every failure
OnDeleteSwallow(t, ans) == Finish(t, OkResult)

\* mutant: delete without the NoNode arm
OnDeleteStrict(t, ans) ==
    IF ans.err = "Ok" THEN Finish(t, OkResult)
    ELSE Finish(t, Unexpected(ans.err))

\* delete: the answer to delete
OnDelete(t, ans) ==
    IF ans.err = "Ok" THEN Finish(t, OkResult)
    ELSE IF ans.err = "NoNode" THEN Finish(t, OkResult)
    ELSE Finish(t, Unexpected(ans.err))

\* mutant: the cut starts at the parent of the target
EnterCreateAtParent(t) ==
    Want([t EXCEPT !.rend = rfind(t.path, "/"), !.next = "create1"])

\* create_nested_node, its entry: the path is made absolute and the cut
\* starts at the end of the path
EnterCreate(t) ==
    LET path == IF ~starts_with(t.path, "/")
                THEN build_rooted_abs_path(RootPath, strip_suffix(t.path, "/"))
                ELSE t.path
    IN  Want([t EXCEPT !.path = path, !.rend = Len(path), !.next = "create1"])

\* mutant: set without the fallback to create_nested_node
OnSetDataNoCreate(t, ans) ==
    IF ans.err = "Ok" THEN Finish(t, OkResult)
    ELSE Finish(t, Unexpected(ans.err))

\* set: the answer to set_data
OnSetData(t, ans) ==
    IF ans.err = "Ok" THEN Finish(t, OkResult)
    ELSE IF ans.err = "NoNode" THEN EnterCreate(t)
    ELSE Finish(t, Unexpected(ans.err))

\* mutant: Phase 2 starts at the first segment of the path
AfterPhase1FromRoot(t) ==
    LET len == find(substring(t.path, 1, Len(t.path)), "/")
    IN  IF len # -1
        THEN Want([t EXCEPT !.rend = len + 1, !.next = "create2"])
        ELSE Finish(t, OkResult)

\* create_nested_node after the loop of Phase 1: the boundary moves to the
\* next '/' behind the cut, and without one the routine returns Ok
AfterPhase1(t) ==
    LET len == find(substring(t.path, t.rend + 1, Len(t.path)), "/")
    IN  IF len # -1
        THEN Want([t EXCEPT !.rend = len + t.rend + 1, !.next = "create2"])
        ELSE Finish(t, OkResult)

\* mutant: Phase 1 retreats on every failure
OnCreate1RetreatAlways(t, ans) ==
    IF ans.err = "Ok" THEN AfterPhase1(t)
    ELSE LET i == rfind(substring(t.path, 0, t.rend), "/")
         IN  IF i = -1 THEN Finish(t, Panicked)
             ELSE Want([t EXCEPT !.rend = i])

\* create_nested_node, Phase 1: the answer to create(subpath)
OnCreate1(t, ans) ==
    IF ans.err = "Ok" THEN AfterPhase1(t)
    ELSE IF ans.err = "NoNode"
         THEN LET i == rfind(substring(t.path, 0, t.rend), "/")
              IN  IF i = -1 THEN Finish(t, Panicked)
                  ELSE Want([t EXCEPT !.rend = i])
    ELSE Finish(t, Unexpected(ans.err))

\* mutant: Phase 2 takes 'already exists' for success
OnCreate2Tolerant(t, ans) ==
    IF ans.err = "Ok" \/ ans.err = "NodeExists"
    THEN IF t.rend = Len(t.path) THEN Finish(t, OkResult)
         ELSE LET len == find(substring(t.path, t.rend + 1, Len(t.path)), "/")
              IN  IF len = -1 THEN Want([t EXCEPT !.rend = Len(t.path)])
                  ELSE Want([t EXCEPT !.rend = len + t.rend + 1])
    ELSE Finish(t, Unexpected(ans.err))

\* mutant: a failed Phase 2 create deletes the node created before it
OnCreate2Rollback(t, ans) ==
    IF ans.err = "Ok"
    THEN IF t.rend = Len(t.path) THEN Finish(t, OkResult)
         ELSE LET len == find(substring(t.path, t.rend + 1, Len(t.path)), "/")
              IN  IF len = -1 THEN Want([t EXCEPT !.rend = Len(t.path)])
                  ELSE Want([t EXCEPT !.rend = len + t.rend + 1])
    ELSE Want([t EXCEPT !.path = ZkParent(substring(t.path, 0, t.rend)),
                        !.next = "delete"])

\* mutant: Phase 2 does not move the boundary after a create
OnCreate2Stalled(t, ans) ==
    IF ans.err = "Ok"
    THEN IF t.rend = Len(t.path) THEN Finish(t, OkResult)
         ELSE Want(t)
    ELSE Finish(t, Unexpected(ans.err))

\* create_nested_node, Phase 2: the answer to create(path[0..rend])
OnCreate2(t, ans) ==
    IF ans.err = "Ok"
    THEN IF t.rend = Len(t.path) THEN Finish(t, OkResult)
         ELSE LET len == find(substring(t.path, t.rend + 1, Len(t.path)), "/")
              IN  IF len = -1 THEN Want([t EXCEPT !.rend = Len(t.path)])
                  ELSE Want([t EXCEPT !.rend = len + t.rend + 1])
    ELSE Finish(t, Unexpected(ans.err))

\* the code that runs on the answer to the node request a task waits for
OnAnswer(t, ans) ==
    IF t.next = "get_data" THEN OnGetData(t, ans)
    ELSE IF t.next = "delete" THEN OnDelete(t, ans)
    ELSE IF t.next = "set_data" THEN OnSetData(t, ans)
    ELSE IF t.next = "create1" THEN OnCreate1(t, ans)
    ELSE OnCreate2(t, ans)

(* ------------------------------- actions ------------------------------- *)

\* a task calls get, set or delete; the operation runs to its first await
Start(p) ==
    /\ task[p].pc \in {"idle", "done"}
    /\ ops < MaxOps
    /\ \E o \in {"get", "set", "delete"}, k \in Keys :
       \E v \in IF o = "set" THEN Values ELSE {Nil} :
          GetConnection(p, [pc |-> "want", op |-> o, path |-> Canonical(k),
                            value |-> v, rend |-> 0, next |-> FirstRequest(o),
                            sess |-> 0, log |-> <<>>, result |-> NoResult,
                            pre |-> Existing(nodes), prev |-> Summary(task[p])])
    /\ ops' = ops + 1
    /\ UNCHANGED <<nodes, client, auth, acl, opened, authed, auths>>

\* connect fails: get_connection returns the Unexpected error
ConnectErr(p) ==
    /\ task[p].pc = "connecting"
    /\ task' = [task EXCEPT ![p] =
                  Finish([@ EXCEPT !.log = Answered(@, "ConnectFailed")],
                         Unexpected("ConnectFailed"))]
    /\ UNCHANGED <<nodes, client, auth, acl, opened, authed, connects, auths, ops>>

\* mutant: the session is offered to the cell before it is authenticated
ConnectOkEager(p) ==
    /\ task[p].pc = "connecting"
    /\ opened' = opened \cup {task[p].sess}
    /\ client' = OnceSet(client, task[p].sess)
    /\ LET s == task[p].sess
           t == [task[p] EXCEPT !.log = Answered(@, "Ok")]
       IN  IF auth # <<>>
           THEN /\ task' = [task EXCEPT ![p] =
                              [t EXCEPT !.pc = "authing", !.sess = s,
                                        !.log = Append(@, SessionEntry("auth", s))]]
                /\ auths' = auths + 1
           ELSE /\ task' = [task EXCEPT ![p] = Send(t, s)]
                /\ auths' = auths
    /\ UNCHANGED <<nodes, auth, acl, authed, connects, ops>>

\* connect succeeds: with credentials the auth request is issued, without
\* the session is offered to the cell and used for the node request
ConnectOk(p) ==
    /\ task[p].pc = "connecting"
    /\ opened' = opened \cup {task[p].sess}
    /\ LET s == task[p].sess
           t == [task[p] EXCEPT !.log = Answered(@, "Ok")]
       IN  IF auth # <<>>
           THEN /\ task' = [task EXCEPT ![p] =
                              [t EXCEPT !.pc = "authing", !.sess = s,
                                        !.log = Append(@, SessionEntry("auth", s))]]
                /\ auths' = auths + 1
                /\ client' = client
           ELSE /\ task' = [task EXCEPT ![p] = Send(t, s)]
                /\ auths' = auths
                /\ client' = OnceSet(client, s)
    /\ UNCHANGED <<nodes, auth, acl, authed, connects, ops>>

\* mutant: the failure of auth is ignored
AuthErrIgnored(p) ==
    /\ task[p].pc = "authing"
    /\ client' = OnceSet(client, task[p].sess)
    /\ task' = [task EXCEPT ![p] =
                  Send([@ EXCEPT !.log = Answered(@, "AuthFailed")], task[p].sess)]
    /\ UNCHANGED <<nodes, auth, acl, opened, authed, connects, auths, ops>>

\* auth fails: the error is returned and the session is dropped
AuthErr(p) ==
    /\ task[p].pc = "authing"
    /\ task' = [task EXCEPT ![p] =
                  Finish([@ EXCEPT !.log = Answered(@, "AuthFailed")],
                         Unexpected("AuthFailed"))]
    /\ UNCHANGED <<nodes, client, auth, acl, opened, authed, connects, auths, ops>>

\* auth succeeds: the session is offered to the cell and used for the node
\* request
AuthOk(p) ==
    /\ task[p].pc = "authing"
    /\ authed' = authed \cup {task[p].sess}
    /\ client' = OnceSet(client, task[p].sess)
    /\ task' = [task EXCEPT ![p] =
                  Send([@ EXCEPT !.log = Answered(@, "Ok")], task[p].sess)]
    /\ UNCHANGED <<nodes, auth, acl, opened, connects, auths, ops>>

\* the store answers the node request of a task, or the transport fails;
\* the task runs on to its next await or to its return
NodeResp(p) ==
    /\ task[p].pc = "req"
    /\ \E fault \in BOOLEAN :
          LET t   == task[p]
              req == t.log[Len(t.log)]
              ans == ZkAnswer(nodes, req.kind, req.path, req.value, fault)
              u   == OnAnswer([t EXCEPT !.log = Answered(@, ans.err)], ans)
          IN  /\ nodes' = ans.ns
              /\ IF u.pc = "want" THEN GetConnection(p, u)
                 ELSE task' = [task EXCEPT ![p] = u] /\ connects' = connects
    /\ UNCHANGED <<client, auth, acl, opened, authed, auths, ops>>

Step(p) ==
    \/ Start(p)
    \/ ConnectErr(p)
    \/ ConnectOk(p)
    \/ AuthErr(p)
    \/ AuthOk(p)
    \/ NodeResp(p)

\* tasks run concurrently and interleave at every await
Next == \E p \in Procs : Step(p)

Spec == Init /\ [][Next]_vars

\* one task runs its operations one after another
SeqNext == Step(SeqProc)

SeqSpec == Init /\ [][SeqNext]_vars

\* the request a task awaits is answered, by the store or by a failure
Answer(p) ==
    \/ ConnectErr(p)
    \/ ConnectOk(p)
    \/ AuthErr(p)
    \/ AuthOk(p)
    \/ NodeResp(p)

\* task p awaits the answer to a request
Awaits(p) == task[p].pc \in {"connecting", "authing", "req"}

\* weak fairness of Answer(p), with its enabling condition written out:
\* an answer is enabled exactly when p awaits one, and it changes p's log
FairAnswer(p) == []<>(~Awaits(p)) \/ []<><<Answer(p)>>_vars

\* concurrent tasks, every awaited request is eventually answered
FairSpec == Spec /\ \A p \in Procs : FairAnswer(p)

TypeOK ==
    /\ nodes \in [NodePaths -> Values \cup OldValues \cup {Nil, RootData}]
    /\ Len(client) <= 1
    /\ \A p \in Procs : task[p].pc \in {"idle", "connecting", "authing", "req", "done"}
    /\ ops <= MaxOps

(* ------------------------------- claims -------------------------------- *)

\* the operation ended on a transport failure, not on an answer of the store
TransportFailed(t) ==
    t.result.cause \in {"ConnectionLoss", "ConnectFailed", "AuthFailed"}

\* the node paths on the way from the root down to path, path included
Prefixes(path) ==
    {substring(path, 0, i) : i \in {j \in 1..Len(path) : j = Len(path) \/ path[j + 1] = "/"}}

\* the prefixes of path that are no node of the set pre
Missing(path, pre) == Prefixes(path) \ pre

\* C1: round trip. When set(k, v) returned success and the next operation
\* is get(k), answered by the store, get returns exactly v.
RoundTrip ==
    LET t == task[SeqProc]
    IN  (/\ t.pc = "done" /\ t.op = "get" /\ ~TransportFailed(t)
         /\ t.prev.op = "set" /\ t.prev.path = t.path
         /\ t.prev.result.kind = "ok")
        => t.result = Found(t.prev.value)

\* C2: ancestor materialization. After set(k, v) returned success on a
\* namespace that held only the root, every prefix node of k's path exists
\* and the node of k holds v.
AncestorMaterialization ==
    LET t == task[SeqProc]
    IN  (t.pc = "done" /\ t.op = "set" /\ t.result.kind = "ok" /\ t.pre = {RootPath})
        => /\ \A q \in Prefixes(t.path) : nodes[q] # Nil
           /\ nodes[t.path] = t.value

\* the answer to the last request of the task's operation
LastResp(t) == t.log[Len(t.log)].resp

\* the node requests (create, get_data, set_data, delete) of a log
IsNodeRequest(e) == e.kind \notin {"connect", "auth"}

NodeRequests(log) == SelectSeq(log, IsNodeRequest)

\* task p receives the answer to its node request `next` and returns
Returns(p, next) ==
    /\ task[p].pc = "req"
    /\ task[p].next = next
    /\ task'[p].pc = "done"

\* C3: delete(k) on an existing leaf, answered by the store, returns
\* success and removes only that node: every other node keeps its payload;
\* a get(k) that follows a successful delete(k) returns absent.
DeleteRemovesOnlyLeaf ==
    [][LET t == task[SeqProc]
           u == task'[SeqProc]
       IN  /\ (/\ Returns(SeqProc, "delete")
               /\ nodes[t.path] # Nil /\ ~HasChildren(nodes, t.path)
               /\ ~TransportFailed(u))
              => /\ u.result = OkResult
                 /\ nodes' = [nodes EXCEPT ![t.path] = Nil]
           /\ (/\ Returns(SeqProc, "get_data")
               /\ t.prev.op = "delete" /\ t.prev.path = t.path
               /\ t.prev.result.kind = "ok"
               /\ ~TransportFailed(u))
              => u.result = Absent]_vars

\* C3 witness: get(k) returned absent right after delete(k) removed the
\* leaf k, whose parent is not the root and still exists.
DeleteRemovesOnlyLeafWitness ==
    LET t == task[SeqProc]
    IN  /\ t.pc = "done" /\ t.op = "get" /\ t.result = Absent
        /\ t.prev.op = "delete" /\ t.prev.path = t.path /\ t.prev.resp = "Ok"
        /\ ZkParent(t.path) # RootPath
        /\ nodes[ZkParent(t.path)] # Nil
        /\ nodes[build_rooted_abs_path(RootPath, SideKey)] # Nil

\* C4 as claimed: two consecutive delete(k) calls on the same key, both
\* answered by the store, both return success.
IdempotentDeleteAnyKey ==
    LET t == task[SeqProc]
    IN  (/\ t.pc = "done" /\ t.op = "delete" /\ ~TransportFailed(t)
         /\ t.prev.op = "delete" /\ t.prev.path = t.path
         /\ ~TransportFailed(t.prev))
        => t.prev.result = OkResult /\ t.result = OkResult

\* C4 amended: delete(k), answered by the store, on a key whose node does
\* not exist returns success and leaves the namespace unchanged; when
\* delete(k) returned success, a delete(k) that follows it returns success
\* too and leaves the namespace as the first call left it.
IdempotentDelete ==
    [][LET t == task[SeqProc]
           u == task'[SeqProc]
       IN  (Returns(SeqProc, "delete") /\ ~TransportFailed(u))
           => /\ nodes[t.path] = Nil => (u.result = OkResult /\ nodes' = nodes)
              /\ (/\ t.prev.op = "delete" /\ t.prev.path = t.path
                  /\ t.prev.result.kind = "ok")
                 => (u.result = OkResult /\ nodes' = nodes)]_vars

\* C4 witness: the second of two delete(k) calls returned success after
\* the first one had removed the node.
IdempotentDeleteWitness ==
    LET t == task[SeqProc]
    IN  /\ t.pc = "done" /\ t.op = "delete" /\ t.result = OkResult
        /\ LastResp(t) = "NoNode"
        /\ t.prev.op = "delete" /\ t.prev.path = t.path
        /\ t.prev.result = OkResult /\ t.prev.resp = "Ok"

\* C5: get(k) answered 'no such node' returns absent, any other failure
\* (of the node request, of connect, of auth) is returned as an Unexpected
\* error, and no step of a get changes the namespace.
AbsentRead ==
    [][LET t == task[SeqProc]
           u == task'[SeqProc]
       IN  u.op = "get" =>
             /\ nodes' = nodes
             /\ (t.pc # "done" /\ u.pc = "done") =>
                   /\ (t.pc = "req" /\ nodes[t.path] = Nil /\ ~TransportFailed(u))
                         => u.result = Absent
                   /\ LastResp(u) = "NoNode" => u.result = Absent
                   /\ LastResp(u) \notin {"Ok", "NoNode"}
                         => u.result = Unexpected(LastResp(u))]_vars

\* C5 witness: get(k) returned absent for a key deleted just before.
AbsentReadWitness ==
    LET t == task[SeqProc]
    IN  /\ t.pc = "done" /\ t.op = "get" /\ t.result = Absent
        /\ LastResp(t) = "NoNode"
        /\ t.prev.op = "delete" /\ t.prev.path = t.path /\ t.prev.resp = "Ok"

\* C6: connection reuse. In a sequence of operations on a fresh adapter
\* whose first connect (and auth, with credentials) succeeded, one connect
\* request and, with credentials, one auth request are issued in total.
ConnectionReuse ==
    (1 \in opened /\ (auth # <<>> => 1 \in authed))
    => /\ connects = 1
       /\ auths = IF auth # <<>> THEN 1 ELSE 0

\* C6 witness: a second operation, a set that went through ancestor
\* creation with several create requests, has returned over the one
\* authenticated session.
ConnectionReuseWitness ==
    LET t == task[SeqProc]
    IN  /\ t.pc = "done" /\ t.op = "set" /\ t.prev.op # "none"
        /\ Len(NodeRequests(t.log)) >= 3
        /\ client = <<1>> /\ connects = 1 /\ auths = 1

\* C7: deepest-ancestor short circuit. When the parent of the target
\* existed and the target did not, set(k, v) issues the update of the
\* target, answered 'no such node', then one create request, for the target,
\* which succeeds, and no other node request.
ShortCircuit ==
    LET t == task[SeqProc]
        r == NodeRequests(t.log)
    IN  (/\ t.pc = "done" /\ t.op = "set" /\ ~TransportFailed(t)
         /\ t.path \notin t.pre /\ ZkParent(t.path) \in t.pre)
        => /\ t.result = OkResult
           /\ Len(r) = 2
           /\ r[1].kind = "set_data" /\ r[1].path = t.path /\ r[1].resp = "NoNode"
           /\ r[2].kind = "create" /\ r[2].path = t.path /\ r[2].resp = "Ok"
           /\ nodes[t.path] = t.value

\* C7 witness: such a set has returned for a target two levels or more
\* below the root.
ShortCircuitWitness ==
    LET t == task[SeqProc]
    IN  /\ t.pc = "done" /\ t.op = "set" /\ t.result = OkResult
        /\ t.path \notin t.pre /\ ZkParent(t.path) \in t.pre
        /\ ZkParent(t.path) # RootPath
        /\ Len(NodeRequests(t.log)) = 2

\* C8 as claimed: no task ever returns an error caused by a 'no such node'
\* answer.
NoNodeNeverSurfaces ==
    \A p \in Procs :
        task[p].result.kind = "Unexpected" => task[p].result.cause # "NoNode"

\* C8 amended: an operation that ends on a 'no such node' answer is a get
\* that returns absent, a delete that returns success, or a set whose
\* Phase 2 create lost its parent to a concurrent delete and returns the
\* Unexpected error; the update of set and the creates of Phase 1 never end
\* the operation on that answer, and no operation panics.
NoNodeHandling ==
    \A p \in Procs :
        LET t == task[p]
        IN  /\ t.result.kind # "panic"
            /\ (t.pc = "done" /\ LastResp(t) = "NoNode")
               => \/ t.next = "get_data" /\ t.result = Absent
                  \/ t.next = "delete" /\ t.result = OkResult
                  \/ t.next = "create2" /\ t.result = Unexpected("NoNode")
            /\ (t.result.kind = "Unexpected" /\ t.result.cause = "NoNode")
               => t.next = "create2"

\* C8 witness: a set returned the Unexpected error of a Phase 2 create
\* answered 'no such node'.
NoNodeHandlingWitness ==
    \E p \in Procs :
        /\ task[p].pc = "done" /\ task[p].op = "set" /\ task[p].next = "create2"
        /\ task[p].result = Unexpected("NoNode")

\* C9: set-once connection cache. Once the cell holds a handle, no step of
\* any task replaces or clears it.
CacheSetOnce == [][client # <<>> => client' = client]_vars

\* C9 witness: a task that lost the race holds its own established session
\* while the cell holds the winner's.
CacheSetOnceWitness ==
    \E p \in Procs :
        /\ client # <<>>
        /\ task[p].pc \in {"req", "done"}
        /\ task[p].sess \in opened
        /\ task[p].sess # client[1]
        /\ auth # <<>> => task[p].sess \in authed

\* C10: a failed connection establishment is never cached. An operation
\* whose connect or auth failed returns the Unexpected error, has issued one
\* connect and no node request, and leaves the cell empty; the operation
\* after it starts with a connect request.
FailedConnectNotCached ==
    LET t == task[SeqProc]
    IN  /\ (t.pc = "done" /\ LastResp(t) \in {"ConnectFailed", "AuthFailed"})
           => /\ t.result = Unexpected(LastResp(t))
              /\ NodeRequests(t.log) = <<>>
              /\ Cardinality({i \in 1..Len(t.log) : t.log[i].kind = "connect"}) = 1
              /\ client = <<>>
        /\ t.prev.resp \in {"ConnectFailed", "AuthFailed"}
           => t.log[1].kind = "connect" /\ t.log[1].sess = connects

\* C10 witness: after an operation whose auth failed, the next operation
\* has issued a fresh connect.
FailedConnectNotCachedWitness ==
    LET t == task[SeqProc]
    IN  /\ t.prev.resp = "AuthFailed"
        /\ t.pc = "connecting"
        /\ connects = 2
        /\ client = <<>>

\* the create requests of a log
IsCreate(e) == e.kind = "create"

Creates(log) == SelectSeq(log, IsCreate)

\* C11: the ACL and the authentication mode are fixed at construction. No
\* step changes auth or acl; the ACL is creator-owns-all exactly when the
\* auth token is set (both username and password configured) and permissive
\* otherwise; a successful connect is followed by an auth request exactly
\* when the token is set; every create request, of Phase 1 and of Phase 2,
\* carries the adapter's ACL and persistent mode.
AclFixed ==
    /\ [][auth' = auth /\ acl' = acl]_vars
    /\ [](/\ \E username \in Creds, password \in Creds :
                /\ auth = Build(username, password).auth
                /\ acl = Build(username, password).acl
                /\ auth # <<>> <=> (username # "" /\ password # "")
          /\ acl = IF auth # <<>> THEN "creator_all" ELSE "anyone_all"
          /\ auth = <<>> => auths = 0
          /\ \A p \in Procs : \A i \in 1..Len(task[p].log) :
                LET e == task[p].log[i]
                IN  /\ e.kind = "create" => (e.acl = acl /\ e.mode = "Persistent")
                    /\ (e.kind = "connect" /\ e.resp = "Ok")
                       => /\ i < Len(task[p].log)
                          /\ auth # <<>> <=> task[p].log[i + 1].kind = "auth")

\* C11 witness: with credentials, a set has issued creates in Phase 1 and
\* in Phase 2, one of each answered Ok.
AclFixedWitness ==
    \E p \in Procs :
        /\ acl = "creator_all" /\ auths >= 1
        /\ task[p].pc = "done" /\ task[p].next = "create2"
        /\ task[p].result = OkResult
        /\ Len(Creates(task[p].log)) >= 3

\* C12 as claimed: every node request is sent over the cached handle; no
\* other session ever carries a node request.
SingleSharedHandle ==
    \A p \in Procs : \A i \in 1..Len(task[p].log) :
        IsNodeRequest(task[p].log[i])
        => (client # <<>> /\ task[p].log[i].sess = client[1])

\* C12 amended: a node request is sent over the cached handle unless it is
\* the request that directly follows the task's own successful connect (and
\* auth); that one request goes over the task's own session, also when the
\* session lost the race for the cell.
SharedHandleAfterOwnRequest ==
    \A p \in Procs : \A i \in 1..Len(task[p].log) :
        LET e == task[p].log[i]
        IN  IsNodeRequest(e)
            => /\ client # <<>>
               /\ \/ e.sess = client[1]
                  \/ /\ i > 1
                     /\ task[p].log[i - 1].kind \in {"connect", "auth"}
                     /\ task[p].log[i - 1].sess = e.sess
                     /\ task[p].log[i - 1].resp = "Ok"

\* C12 witness: a set that lost the race sent its update over its own
\* session and a later create over the cached one.
SharedHandleAfterOwnRequestWitness ==
    \E p \in Procs :
        LET r == NodeRequests(task[p].log)
        IN  /\ client # <<>>
            /\ Len(r) >= 2
            /\ r[1].sess # client[1]
            /\ r[2].sess = client[1]

\* C13: authentication precedes use. With credentials, every session that
\* carries a node request, the session of a task that lost the race
\* included, and the session in the cell have had their auth request
\* answered Ok.
AuthBeforeUse ==
    auth # <<>> =>
        /\ client # <<>> => client[1] \in authed
        /\ \A p \in Procs : \A i \in 1..Len(task[p].log) :
              IsNodeRequest(task[p].log[i]) => task[p].log[i].sess \in authed

\* C13 witness: with credentials, a task that lost the race has sent a node
\* request over its own authenticated session.
AuthBeforeUseWitness ==
    \E p \in Procs :
        /\ auth # <<>> /\ client # <<>>
        /\ task[p].pc = "req"
        /\ task[p].sess # client[1]
        /\ task[p].sess \in authed

\* C14: root-to-leaf fill. Within one set call that runs alone, the creates
\* answered Ok name prefixes of strictly increasing length (so none is
\* created twice), a Phase 2 create is issued for a node whose parent
\* exists and is refused by the store in no case, and no create names a
\* prefix that existed when the call started.
RootToLeafFill ==
    LET t == task[SeqProc]
        c == Creates(t.log)
    IN  t.op = "set" =>
          /\ \A i, j \in 1..Len(c) :
                (i < j /\ c[i].resp = "Ok" /\ c[j].resp = "Ok")
                => Len(c[i].path) < Len(c[j].path)
          /\ \A i \in 1..Len(c) :
                /\ c[i].path \in Prefixes(t.path)
                /\ c[i].path \notin t.pre
                /\ (\E j \in 1..(i - 1) : c[j].resp = "Ok")
                   => c[i].resp \in {"pending", "Ok", "ConnectionLoss"}
          /\ (t.pc = "req" /\ t.next = "create2")
             => nodes[ZkParent(RequestPath(t))] # Nil

\* C14 witness: a set has returned after three creates answered Ok, the
\* last two in Phase 2.
RootToLeafFillWitness ==
    LET t == task[SeqProc]
        c == Creates(t.log)
    IN  /\ t.pc = "done" /\ t.op = "set" /\ t.result = OkResult
        /\ Cardinality({i \in 1..Len(c) : c[i].resp = "Ok"}) >= 3

\* C15: 'already exists' is not tolerated. A create answered 'already
\* exists', in Phase 1 or in Phase 2, is the last request of its set, which
\* returns the Unexpected error.
NodeExistsAborts ==
    \A p \in Procs : \A i \in 1..Len(task[p].log) :
        (task[p].log[i].kind = "create" /\ task[p].log[i].resp = "NodeExists")
        => /\ i = Len(task[p].log)
           /\ task[p].pc = "done"
           /\ task[p].result = Unexpected("NodeExists")

\* C15 witness: two sets ran concurrently, one was answered 'already
\* exists' in Phase 2 and returned the error with its target uncreated.
NodeExistsAbortsWitness ==
    \E p \in Procs :
        /\ task[p].pc = "done" /\ task[p].op = "set" /\ task[p].next = "create2"
        /\ task[p].result = Unexpected("NodeExists")
        /\ nodes[task[p].path] = Nil
        /\ \A q \in Procs : task[q].op = "set"

\* C16: no rollback. A set that runs alone issues no delete request, and
\* every node one of its creates made exists, with the payload of the call,
\* whatever the outcome of the call.
NoRollback ==
    LET t == task[SeqProc]
    IN  t.op = "set" =>
          \A i \in 1..Len(t.log) :
             /\ t.log[i].kind # "delete"
             /\ (t.log[i].kind = "create" /\ t.log[i].resp = "Ok")
                => nodes[t.log[i].path] = t.value

\* C16 witness: set returned an error, ancestors created by the call exist
\* and the target does not.
NoRollbackWitness ==
    LET t == task[SeqProc]
        c == Creates(t.log)
    IN  /\ t.pc = "done" /\ t.op = "set" /\ t.result.kind = "Unexpected"
        /\ \E i \in 1..Len(c) : c[i].resp = "Ok" /\ nodes[c[i].path] # Nil
        /\ nodes[t.path] = Nil

\* task p takes a step
Steps(p) == task'[p] # task[p]

\* C17: every create request of a set(k, v) call carries the payload v, and
\* every node that comes into existence is made by a step of a set and
\* holds the payload of that call, whether it is the node of the Phase 1
\* boundary, an intermediate node of Phase 2 or the target.
CreatedWithPayload ==
    [][/\ \A p \in Procs : \A i \in 1..Len(task'[p].log) :
             task'[p].log[i].kind = "create"
             => (task'[p].log[i].value = task'[p].value /\ task'[p].value \in Values)
       /\ \A q \in NodePaths :
             (nodes[q] = Nil /\ nodes'[q] # Nil)
             => \E p \in Procs :
                   /\ Steps(p) /\ task[p].op = "set" /\ task[p].pc = "req"
                   /\ q \in Prefixes(task[p].path)
                   /\ nodes'[q] = task[p].value]_vars

\* C17 witness: a set on a namespace holding only the root has returned
\* and the three nodes of its path hold its payload.
CreatedWithPayloadWitness ==
    \E p \in Procs :
        /\ task[p].pc = "done" /\ task[p].op = "set" /\ task[p].result = OkResult
        /\ task[p].pre = {RootPath}
        /\ Cardinality(Prefixes(task[p].path)) >= 3
        /\ \A q \in Prefixes(task[p].path) : nodes[q] = task[p].value

\* C18: the root is never created. No create request names "/", the cut
\* of Phase 1 and the boundary of Phase 2 stay behind the first segment, and
\* no set panics on the search for a '/' before the cut.
RootNeverCreated ==
    \A p \in Procs :
        /\ task[p].result.kind # "panic"
        /\ \A i \in 1..Len(task[p].log) :
              task[p].log[i].kind = "create" => task[p].log[i].path # RootPath
        /\ task[p].next \in {"create1", "create2"} => task[p].rend >= 2

\* C18 witness: the retreat of Phase 1 reached the first segment of a
\* deeper path and the create of that segment was answered Ok.
RootNeverCreatedWitness ==
    \E p \in Procs :
        LET c == Creates(task[p].log)
        IN  /\ task[p].op = "set" /\ Len(task[p].path) > 2
            /\ Len(c) >= 2
            /\ c[Len(c)].path = substring(task[p].path, 0, 2)
            /\ c[Len(c)].resp = "Ok"
            /\ c[Len(c) - 1].resp = "NoNode"

\* C20: frame of set. A step of a set changes the payload of an existing
\* node only by the update of the node at k, removes no node, and adds only
\* prefixes of k's path that were missing.
SetFrame ==
    [][\A p \in Procs :
          (Steps(p) /\ task[p].op = "set")
          => \A q \in NodePaths :
                nodes'[q] # nodes[q]
                => /\ nodes'[q] = task[p].value
                   /\ \/ nodes[q] # Nil /\ q = task[p].path /\ task[p].next = "set_data"
                      \/ nodes[q] = Nil /\ q \in Prefixes(task[p].path)
                         /\ task[p].next \in {"create1", "create2"}]_vars

\* C20 witness: a set created its target below two ancestors that existed
\* before and still hold their old payload.
SetFrameWitness ==
    \E p \in Procs :
        /\ task[p].pc = "done" /\ task[p].op = "set" /\ task[p].result = OkResult
        /\ Cardinality(Prefixes(task[p].path)) >= 3
        /\ nodes[task[p].path] = task[p].value
        /\ task[p].path \notin task[p].pre
        /\ \A q \in Prefixes(task[p].path) \ {task[p].path} :
              q \in task[p].pre /\ nodes[q] \in OldValues

IsSetData(e) == e.kind = "set_data"

\* the number of segments of a path
Depth(path) == Len(path) \div 2

\* C19: termination. When every awaited request is eventually answered,
\* every set returns. A set issues at most one update request, as its first
\* node request, and at most 2*d create requests for a path of d segments;
\* the cut of Phase 1 strictly decreases on each retry and the boundary of
\* Phase 2 strictly increases on each step.
SetTerminates ==
    /\ \A p \in Procs :
          (task[p].op = "set" /\ Awaits(p)) ~> (task[p].pc = "done")
    /\ [](\A p \in Procs :
            task[p].op = "set"
            => LET r == NodeRequests(task[p].log)
               IN  /\ Len(SelectSeq(r, IsSetData)) <= 1
                   /\ (Len(r) >= 1 => r[1].kind = "set_data")
                   /\ Len(Creates(r)) <= 2 * Depth(task[p].path))
    /\ [][\A p \in Procs :
            (/\ Steps(p) /\ task[p].op = "set" /\ task[p].pc = "req"
             /\ task[p].next \in {"create1", "create2"}
             /\ task'[p].pc = "req" /\ task'[p].next = task[p].next)
            => /\ \/ task[p].next = "create1" /\ task'[p].rend < task[p].rend
                  \/ task[p].next = "create2" /\ task'[p].rend > task[p].rend
               /\ task'[p].rend \in 1..Len(task[p].path)]_vars

\* C19 witness: a set on a path of three segments returned after one update
\* request and five create requests, three of Phase 1 and two of Phase 2.
SetTerminatesWitness ==
    \E p \in Procs :
        LET r == NodeRequests(task[p].log)
        IN  /\ task[p].op = "set" /\ task[p].pc = "done"
            /\ task[p].result = OkResult
            /\ Depth(task[p].path) = 3
            /\ Len(SelectSeq(r, IsSetData)) = 1
            /\ Len(Creates(r)) = 5

====
